---- MODULE Spec2Model ----
(***************************************************************************)
(* A model of the three programs of the onlinetranslation.ae site:        *)
(*   - scripts/generate-sitemap.mjs, the build-time sitemap generator;     *)
(*   - the navigation scroll handler (client script);                      *)
(*   - the ImageOptimizer (client script).                                 *)
(* JavaScript strings are sequences of one-character strings, so that      *)
(* endsWith, includes, replace and the default sort are computed on the    *)
(* characters, as the engine computes them.                                *)
(***************************************************************************)
EXTENDS Integers, Sequences, FiniteSets, TLC

VARIABLES
    \* ---- sitemap generator
    tree,        \* the directory tree under ROOT_DIR: a set of leaf entries
    stack,       \* the active getHtmlFiles calls, innermost last
    htmlFiles,   \* generate(): const htmlFiles
    urls,        \* generate(): const urls, as serialized into the <url> list
    spc,         \* "walk" | "done" | "idle"
    \* ---- navigation scroll handler
    header,      \* document.getElementById('header') found an element
    npc,         \* "parsed" (script not run yet) | "running" | "idle"
    pageYOffset, \* window.pageYOffset
    scrolled,    \* header.classList contains 'scrolled'
    ticking,     \* let ticking
    rafPending,  \* number of updateHeader callbacks in the animation-frame list
    scrollEventPending, \* the document has a scroll event to dispatch
    lastEventOffset,    \* pageYOffset when the last scroll event was dispatched
    lastRead,    \* currentScroll of the last updateHeader that read it, or -1
    \* ---- image optimizer
    ipc,         \* "constructed" (init awaits checkWebPSupport) | "ready" | "idle"
    hasIO,       \* 'IntersectionObserver' in window
    hasMO,       \* 'MutationObserver' in window
    webpSupported,   \* this.webpSupported: "null" | "true" | "false"
    imageObserver,   \* this.imageObserver is set
    moActive,        \* the MutationObserver of observeNewImages is observing
    imgs,        \* per image element: attributes, classes, document membership
    observed,    \* the targets of imageObserver
    tempImgs,    \* per image element: the temporary Images still loading
    loads,       \* per image element: temporary Images created so far
    failed,      \* per image element: an onerror handler has run
    lateInsert   \* per image element: inserted into the document after init

varsS == <<tree, stack, htmlFiles, urls, spc>>
varsN == <<header, npc, pageYOffset, scrolled, ticking, rafPending,
           scrollEventPending, lastEventOffset, lastRead>>
varsI == <<ipc, hasIO, hasMO, webpSupported, imageObserver, moActive, imgs,
           observed, tempImgs, loads, failed, lateInsert>>
vars == <<varsS, varsN, varsI>>

----------------------------------------------------------------------------
(* JavaScript strings *)

\* The characters the model uses, in ascending UTF-16 code-unit order.
CodeUnits ==
    <<"-", ".", "/", "0", "1", "2", "3", "4", "5", "6", "7", "8", "9", ":",
      "A", "B", "C", "D", "E", "F", "G", "H", "I", "J", "K", "L", "M", "N",
      "O", "P", "Q", "R", "S", "T", "U", "V", "W", "X", "Y", "Z", "_",
      "a", "b", "c", "d", "e", "f", "g", "h", "i", "j", "k", "l", "m", "n",
      "o", "p", "q", "r", "s", "t", "u", "v", "w", "x", "y", "z">>

CodeOf ==
    [c \in {CodeUnits[k] : k \in DOMAIN CodeUnits} |->
        CHOOSE k \in DOMAIN CodeUnits : CodeUnits[k] = c]

Code(c) == CodeOf[c]

StartsWith(s, p) == Len(p) <= Len(s) /\ SubSeq(s, 1, Len(p)) = p

EndsWith(s, p) == Len(p) <= Len(s) /\ SubSeq(s, Len(s) - Len(p) + 1, Len(s)) = p

Includes(s, p) ==
    \E k \in 0..(Len(s) - Len(p)) : SubSeq(s, k + 1, k + Len(p)) = p

\* a < b in the order of Array.prototype.sort's default comparison.
StrLess(a, b) ==
    \E k \in 1..(Len(a) + 1) :
        /\ k <= Len(b)
        /\ \A m \in 1..(k - 1) : a[m] = b[m]
        /\ k = Len(a) + 1 \/ Code(a[k]) < Code(b[k])

StrLeq(a, b) == a = b \/ StrLess(a, b)

RECURSIVE Join(_, _)
Join(segs, sep) ==
    IF Len(segs) = 0 THEN <<>>
    ELSE IF Len(segs) = 1 THEN segs[1]
    ELSE segs[1] \o sep \o Join(Tail(segs), sep)

Front(s) == SubSeq(s, 1, Len(s) - 1)
Last(s) == s[Len(s)]
Range(s) == {s[k] : k \in DOMAIN s}

----------------------------------------------------------------------------
(* scripts/generate-sitemap.mjs *)

BASE_URL == <<"h", "t", "t", "p", "s", ":", "/", "/", "o", "n", "l", "i", "n", "e", "t", "r", "a", "n", "s", "l", "a", "t", "i", "o", "n", ".", "a", "e">>

SKIP_FILES == {<<"4", "0", "4", ".", "h", "t", "m", "l">>, <<"o", "f", "f", "l", "i", "n", "e", ".", "h", "t", "m", "l">>}

SKIP_DIRS == {<<"n", "o", "d", "e", "_", "m", "o", "d", "u", "l", "e", "s">>, <<".", "g", "i", "t">>, <<".", "g", "i", "t", "h", "u", "b">>, <<"s", "c", "r", "i", "p", "t", "s">>, <<"s", "t", "y", "l", "e", "s">>,
              <<"i", "m", "a", "g", "e", "s">>, <<"a", "t", "t", "a", "c", "h", "e", "d", "_", "a", "s", "s", "e", "t", "s">>}

\* The most leaf entries a directory tree of the model holds.
MaxFiles == 3

File(p) == [path |-> p, kind |-> "file"]
Link(p) == [path |-> p, kind |-> "link"]

\* The leaf entries a tree is drawn from; a path is the sequence of names
\* from ROOT_DIR down to the entry.  A "link" is a symbolic link, for which
\* a Dirent answers false to both isDirectory() and isFile().
Leaves ==
    { File(<<<<"i", "n", "d", "e", "x", ".", "h", "t", "m", "l">>>>),
      File(<<<<"4", "0", "4", ".", "h", "t", "m", "l">>>>),
      File(<<<<"Z", "e", "d", ".", "h", "t", "m", "l">>>>),
      File(<<<<"p", "r", "i", "v", "a", "c", "y", ".", "h", "t", "m", "l">>>>),
      File(<<<<"t", "e", "r", "m", "s", ".", "h", "t", "m", "l">>>>),
      File(<<<<"n", "o", "t", "e", "s", ".", "t", "x", "t">>>>),
      Link(<<<<"l", "i", "n", "k", ".", "h", "t", "m", "l">>>>),
      File(<<<<"s", "e", "r", "v", "i", "c", "e", "s">>, <<"i", "n", "d", "e", "x", ".", "h", "t", "m", "l">>>>),
      File(<<<<"s", "e", "r", "v", "i", "c", "e", "s">>, <<"p", "r", "i", "v", "a", "c", "y", ".", "h", "t", "m", "l">>>>),
      File(<<<<"p", "e", "r", "s", "o", "n", "a", "l">>, <<"v", "i", "s", "a", ".", "h", "t", "m", "l">>>>),
      File(<<<<"l", "e", "g", "a", "l">>, <<"i", "n", "d", "e", "x", ".", "h", "t", "m", "l">>>>),
      File(<<<<"l", "o", "c", "a", "t", "i", "o", "n", "s">>, <<"d", "u", "b", "a", "i", ".", "h", "t", "m", "l">>>>),
      File(<<<<"i", "n", "d", "u", "s", "t", "r", "i", "e", "s">>, <<"i", "n", "d", "e", "x", ".", "h", "t", "m", "l">>>>),
      File(<<<<"r", "e", "s", "o", "u", "r", "c", "e", "s">>, <<"t", "e", "r", "m", "s", ".", "h", "t", "m", "l">>>>),
      File(<<<<"s", "c", "r", "i", "p", "t", "s">>, <<"i", "n", "d", "e", "x", ".", "h", "t", "m", "l">>>>),
      File(<<<<"b", "l", "o", "g">>, <<"o", "f", "f", "l", "i", "n", "e", ".", "h", "t", "m", "l">>>>),
      File(<<<<"b", "l", "o", "g">>, <<"i", "m", "a", "g", "e", "s">>, <<"p", ".", "h", "t", "m", "l">>>>),
      File(<<<<"b", "l", "o", "g">>, <<"s", "e", "r", "v", "i", "c", "e", "s">>, <<"a", ".", "h", "t", "m", "l">>>>) }

IsPrefix(d, p) == Len(d) <= Len(p) /\ SubSeq(p, 1, Len(d)) = d

\* fs.readdir(dir, { withFileTypes: true }): the names in dir, in no order.
Readdir(t, dir) ==
    {e.path[Len(dir) + 1] : e \in {x \in t : Len(x.path) > Len(dir) /\ IsPrefix(dir, x.path)}}

IsDirectory(t, dir, n) ==
    \E e \in t : Len(e.path) > Len(dir) + 1 /\ IsPrefix(dir \o <<n>>, e.path)

IsFile(t, dir, n) == \E e \in t : e.path = dir \o <<n>> /\ e.kind = "file"

SkipDirName(n) == n \in SKIP_DIRS

\* A variant of SkipFileName that consults the wrong skip-list.
SkipFileNameWrongList(n) == n \in SKIP_DIRS

SkipFileName(n) == n \in SKIP_FILES

IsHtmlName(n) == EndsWith(n, <<".", "h", "t", "m", "l">>)

Call(t, dir) == [dir |-> dir, todo |-> Readdir(t, dir), files |-> <<>>]

Top == stack[Len(stack)]

Done(n) == [stack EXCEPT ![Len(stack)].todo = @ \ {n}]

\* entry.isDirectory() and the name is not skipped: recurse.
EnterDir(n) ==
    /\ spc = "walk" /\ stack # <<>> /\ n \in Top.todo
    /\ IsDirectory(tree, Top.dir, n) /\ ~SkipDirName(n)
    /\ stack' = Done(n) \o <<Call(tree, Top.dir \o <<n>>)>>
    /\ UNCHANGED <<tree, htmlFiles, urls, spc, varsN, varsI>>

\* entry.isDirectory() and the name is in SKIP_DIRS.
SkipDir(n) ==
    /\ spc = "walk" /\ stack # <<>> /\ n \in Top.todo
    /\ IsDirectory(tree, Top.dir, n) /\ SkipDirName(n)
    /\ stack' = Done(n)
    /\ UNCHANGED <<tree, htmlFiles, urls, spc, varsN, varsI>>

\* entry.isFile(), the name ends in '.html' and is not skipped: files.push.
PushFile(n) ==
    /\ spc = "walk" /\ stack # <<>> /\ n \in Top.todo
    /\ ~IsDirectory(tree, Top.dir, n)
    /\ IsFile(tree, Top.dir, n) /\ IsHtmlName(n) /\ ~SkipFileName(n)
    /\ stack' = [Done(n) EXCEPT ![Len(stack)].files = Append(@, Top.dir \o <<n>>)]
    /\ UNCHANGED <<tree, htmlFiles, urls, spc, varsN, varsI>>

\* entry.isFile(), the name ends in '.html' and is in SKIP_FILES.
SkipFile(n) ==
    /\ spc = "walk" /\ stack # <<>> /\ n \in Top.todo
    /\ ~IsDirectory(tree, Top.dir, n)
    /\ IsFile(tree, Top.dir, n) /\ IsHtmlName(n) /\ SkipFileName(n)
    /\ stack' = Done(n)
    /\ UNCHANGED <<tree, htmlFiles, urls, spc, varsN, varsI>>

\* neither a directory nor an HTML file: nothing is pushed.
OtherEntry(n) ==
    /\ spc = "walk" /\ stack # <<>> /\ n \in Top.todo
    /\ ~IsDirectory(tree, Top.dir, n)
    /\ ~(IsFile(tree, Top.dir, n) /\ IsHtmlName(n))
    /\ stack' = Done(n)
    /\ UNCHANGED <<tree, htmlFiles, urls, spc, varsN, varsI>>

\* return files, into the caller's files.push(...(await getHtmlFiles(fullPath))).
ReturnFiles ==
    /\ spc = "walk" /\ Len(stack) > 1 /\ Top.todo = {}
    /\ stack' = [Front(stack) EXCEPT ![Len(stack) - 1].files = @ \o Top.files]
    /\ UNCHANGED <<tree, htmlFiles, urls, spc, varsN, varsI>>

\* A variant of StripIndexHtml that also strips the slash before the name.
StripSlashIndexHtml(s) ==
    IF EndsWith(s, <<"/", "i", "n", "d", "e", "x", ".", "h", "t", "m", "l">>) THEN SubSeq(s, 1, Len(s) - Len(<<"/", "i", "n", "d", "e", "x", ".", "h", "t", "m", "l">>)) ELSE s

\* relPath.replace(/index\.html$/, '')
StripIndexHtml(s) ==
    IF EndsWith(s, <<"i", "n", "d", "e", "x", ".", "h", "t", "m", "l">>) THEN SubSeq(s, 1, Len(s) - Len(<<"i", "n", "d", "e", "x", ".", "h", "t", "m", "l">>)) ELSE s

\* path.relative(ROOT_DIR, filePath) with the separators as '/'.
Relative(filePath) == Join(filePath, <<"/">>)

toUrlPath(filePath) ==
    LET relPath == Relative(filePath) IN
    IF relPath = <<"i", "n", "d", "e", "x", ".", "h", "t", "m", "l">> THEN <<"/">>
    ELSE LET r1 == IF EndsWith(relPath, <<"/", "i", "n", "d", "e", "x", ".", "h", "t", "m", "l">>) THEN StripIndexHtml(relPath)
                   ELSE relPath
         IN IF ~StartsWith(r1, <<"/">>) THEN <<"/">> \o r1 ELSE r1

Meta(c, p) == [changefreq |-> c, priority |-> p]

\* A variant of getMeta that tests the sections with startsWith.
getMetaByPrefix(urlPath) ==
    IF urlPath = <<"/">> THEN Meta("weekly", "1.0")
    ELSE IF StartsWith(urlPath, <<"/", "s", "e", "r", "v", "i", "c", "e", "s", "/">>) THEN Meta("weekly", "0.9")
    ELSE IF StartsWith(urlPath, <<"/", "p", "e", "r", "s", "o", "n", "a", "l", "/">>) \/ StartsWith(urlPath, <<"/", "l", "e", "g", "a", "l", "/">>)
        THEN Meta("weekly", "0.9")
    ELSE IF StartsWith(urlPath, <<"/", "l", "o", "c", "a", "t", "i", "o", "n", "s", "/">>) THEN Meta("monthly", "0.8")
    ELSE IF StartsWith(urlPath, <<"/", "i", "n", "d", "u", "s", "t", "r", "i", "e", "s", "/">>) THEN Meta("monthly", "0.7")
    ELSE IF StartsWith(urlPath, <<"/", "r", "e", "s", "o", "u", "r", "c", "e", "s", "/">>) THEN Meta("monthly", "0.7")
    ELSE IF Includes(urlPath, <<"p", "r", "i", "v", "a", "c", "y">>) \/ Includes(urlPath, <<"t", "e", "r", "m", "s">>)
        THEN Meta("yearly", "0.3")
    ELSE Meta("monthly", "0.6")

getMeta(urlPath) ==
    IF urlPath = <<"/">> THEN Meta("weekly", "1.0")
    ELSE IF Includes(urlPath, <<"/", "s", "e", "r", "v", "i", "c", "e", "s", "/">>) THEN Meta("weekly", "0.9")
    ELSE IF Includes(urlPath, <<"/", "p", "e", "r", "s", "o", "n", "a", "l", "/">>) \/ Includes(urlPath, <<"/", "l", "e", "g", "a", "l", "/">>)
        THEN Meta("weekly", "0.9")
    ELSE IF Includes(urlPath, <<"/", "l", "o", "c", "a", "t", "i", "o", "n", "s", "/">>) THEN Meta("monthly", "0.8")
    ELSE IF Includes(urlPath, <<"/", "i", "n", "d", "u", "s", "t", "r", "i", "e", "s", "/">>) THEN Meta("monthly", "0.7")
    ELSE IF Includes(urlPath, <<"/", "r", "e", "s", "o", "u", "r", "c", "e", "s", "/">>) THEN Meta("monthly", "0.7")
    ELSE IF Includes(urlPath, <<"p", "r", "i", "v", "a", "c", "y">>) \/ Includes(urlPath, <<"t", "e", "r", "m", "s">>)
        THEN Meta("yearly", "0.3")
    ELSE Meta("monthly", "0.6")

\* Array.prototype.sort() with no comparator: ascending by UTF-16 code units.
RECURSIVE Insert(_, _)
Insert(sorted, x) ==
    IF sorted = <<>> THEN <<x>>
    ELSE IF StrLeq(x, Head(sorted)) THEN <<x>> \o sorted
    ELSE <<Head(sorted)>> \o Insert(Tail(sorted), x)

RECURSIVE InsertionSort(_)
InsertionSort(seq) ==
    IF seq = <<>> THEN <<>> ELSE Insert(InsertionSort(Front(seq)), Last(seq))

\* A variant of Sort that leaves the order of discovery.
SortOmitted(seq) == seq

Sort(seq) == InsertionSort(seq)

Truthy(p) == p # <<>>

MapSeq(seq, Op(_)) == [k \in DOMAIN seq |-> Op(seq[k])]

Entry(p) ==
    [loc |-> BASE_URL \o p, lastmod |-> "now",
     changefreq |-> getMeta(p).changefreq, priority |-> getMeta(p).priority]

\* htmlFiles.map(toUrlPath).filter(Boolean).sort().map(...)
SitemapUrls(files) ==
    MapSeq(Sort(SelectSeq(MapSeq(files, toUrlPath), Truthy)), Entry)

\* generate(), from the return of getHtmlFiles(ROOT_DIR) on.
Generate ==
    /\ spc = "walk" /\ Len(stack) = 1 /\ Top.todo = {}
    /\ htmlFiles' = Top.files
    /\ urls' = SitemapUrls(Top.files)
    /\ stack' = <<>>
    /\ spc' = "done"
    /\ UNCHANGED <<tree, varsN, varsI>>

Names == UNION {Range(e.path) : e \in Leaves}

InitSitemap ==
    /\ tree \in {t \in SUBSET Leaves : Cardinality(t) <= MaxFiles}
    /\ stack = <<Call(tree, <<>>)>>
    /\ htmlFiles = <<>>
    /\ urls = <<>>
    /\ spc = "walk"

IdleSitemap ==
    /\ tree = {} /\ stack = <<>> /\ htmlFiles = <<>> /\ urls = <<>> /\ spc = "idle"

NextSitemap ==
    \/ \E n \in Names : EnterDir(n)
    \/ \E n \in Names : SkipDir(n)
    \/ \E n \in Names : PushFile(n)
    \/ \E n \in Names : SkipFile(n)
    \/ \E n \in Names : OtherEntry(n)
    \/ ReturnFiles
    \/ Generate

----------------------------------------------------------------------------
(* navigation scroll handler *)

\* if (currentScroll > 50)
Threshold == 50

\* The scroll offsets the page takes.
ScrollOffsets == {0, 49, 50, 51, 120}

\* A variant of ScrolledClass that adds the class at the threshold itself.
ScrolledClassAtThreshold(currentScroll) == currentScroll >= Threshold

\* currentScroll > 50: classList.add('scrolled'), else classList.remove.
ScrolledClass(currentScroll) == currentScroll > Threshold

\* A variant of updateHeader that resets ticking only when there is no header.
updateHeaderKeepsTicking ==
    IF ~header
    THEN /\ ticking' = FALSE
         /\ UNCHANGED <<scrolled, lastRead>>
    ELSE /\ lastRead' = pageYOffset
         /\ scrolled' = ScrolledClass(pageYOffset)
         /\ UNCHANGED ticking

\* function updateHeader()
updateHeader ==
    IF ~header
    THEN /\ ticking' = FALSE
         /\ UNCHANGED <<scrolled, lastRead>>
    ELSE /\ lastRead' = pageYOffset
         /\ scrolled' = ScrolledClass(pageYOffset)
         /\ ticking' = FALSE

\* The scroll listener: request a frame unless one is already requested.
RequestsFrame == ~ticking

\* The script body: the listener is registered and updateHeader() is called.
RunScript ==
    /\ npc = "parsed"
    /\ npc' = "running"
    /\ updateHeader
    /\ lastEventOffset' = pageYOffset
    /\ UNCHANGED <<header, pageYOffset, rafPending, scrollEventPending,
                   varsS, varsI>>

\* The page is scrolled; the document now has a scroll event to dispatch.
ScrollTo(y) ==
    /\ npc = "running" /\ y # pageYOffset
    /\ pageYOffset' = y
    /\ scrollEventPending' = TRUE
    /\ UNCHANGED <<header, npc, scrolled, ticking, rafPending, lastEventOffset, lastRead,
                   varsS, varsI>>

\* window.addEventListener('scroll', function() { ... })
ScrollEvent ==
    /\ npc = "running" /\ scrollEventPending
    /\ scrollEventPending' = FALSE
    /\ lastEventOffset' = pageYOffset
    /\ IF RequestsFrame
       THEN rafPending' = rafPending + 1 /\ ticking' = TRUE
       ELSE UNCHANGED <<rafPending, ticking>>
    /\ UNCHANGED <<header, npc, pageYOffset, scrolled, lastRead,
                   varsS, varsI>>

\* The animation frame runs a requested updateHeader.  A rendering update
\* dispatches the pending scroll events before it runs the frame callbacks.
Frame ==
    /\ npc = "running" /\ rafPending > 0 /\ ~scrollEventPending
    /\ rafPending' = rafPending - 1
    /\ updateHeader
    /\ UNCHANGED <<header, npc, pageYOffset, scrollEventPending, lastEventOffset,
                   varsS, varsI>>

InitNav ==
    /\ header \in BOOLEAN
    /\ npc = "parsed"
    /\ pageYOffset \in ScrollOffsets
    /\ scrolled \in (IF header THEN BOOLEAN ELSE {FALSE})
    /\ ticking = FALSE
    /\ rafPending = 0
    /\ scrollEventPending = FALSE
    /\ lastEventOffset = pageYOffset
    /\ lastRead = -1

IdleNav ==
    /\ header = FALSE /\ npc = "idle" /\ pageYOffset = 0 /\ scrolled = FALSE
    /\ ticking = FALSE /\ rafPending = 0 /\ scrollEventPending = FALSE
    /\ lastEventOffset = 0 /\ lastRead = -1

NextNav ==
    \/ RunScript
    \/ \E y \in ScrollOffsets : ScrollTo(y)
    \/ ScrollEvent
    \/ Frame

----------------------------------------------------------------------------
(* ImageOptimizer *)

\* The image elements of the page.
Imgs == {"hero", "card"}

\* The most temporary Images the model lets loadImage create for one element.
MaxLoads == 2

\* The origin the page is served from; the page is the root document.
Origin == <<"h", "t", "t", "p", "s", ":", "/", "/", "o", "n", "l", "i", "n", "e", "t", "r", "a", "n", "s", "l", "a", "t", "i", "o", "n", ".", "a", "e">>

NoAttr == <<>>

\* The markup of an image element: data-src, src and loading="lazy".
Markup(d, a, l) == [dataSrc |-> d, srcAttr |-> a, lazy |-> l]

Markups ==
    { Markup(<<"p", "h", "o", "t", "o", ".", "j", "p", "g">>, NoAttr, FALSE),
      Markup(<<"a", ".", "P", "N", "G">>, NoAttr, TRUE),
      Markup(<<"p", "i", "c", ".", "w", "e", "b", "p">>, NoAttr, FALSE),
      Markup(<<"d", "a", "t", "a", ":", "x", ".", "p", "n", "g">>, NoAttr, FALSE),
      Markup(<<"h", "t", "t", "p", "s", ":", "/", "/", "o", "n", "l", "i", "n", "e", "t", "r", "a", "n", "s", "l", "a", "t", "i", "o", "n", ".", "a", "e", "/", "b", ".", "j", "p", "e", "g">>, NoAttr, FALSE),
      Markup(<<"h", "t", "t", "p", "s", ":", "/", "/", "o", "n", "l", "i", "n", "e", "t", "r", "a", "n", "s", "l", "a", "t", "i", "o", "n", ".", "a", "e", "/", "b", ".", "j", "p", "e", "g">>, <<"h", "t", "t", "p", "s", ":", "/", "/", "o", "n", "l", "i", "n", "e", "t", "r", "a", "n", "s", "l", "a", "t", "i", "o", "n", ".", "a", "e", "/", "b", ".", "j", "p", "e", "g">>, TRUE),
      Markup(NoAttr, <<"l", "o", "g", "o", ".", "p", "n", "g">>, TRUE),
      Markup(NoAttr, <<"l", "o", "g", "o", ".", "p", "n", "g">>, FALSE) }

\* The src getter of an image element: the attribute resolved against the page.
Resolve(attr) ==
    IF attr = NoAttr THEN NoAttr
    ELSE IF StartsWith(attr, <<"d", "a", "t", "a", ":">>) \/ StartsWith(attr, <<"h", "t", "t", "p", "s", ":", "/", "/">>) THEN attr
    ELSE Origin \o <<"/">> \o attr

ImgSrc(i) == Resolve(imgs[i].srcAttr)

\* The lower-case form of a character, as the i flag of a pattern folds it:
\* in CodeUnits "a" follows "A" by the 26 letters and "_".
LowerOf ==
    [c \in {CodeUnits[k] : k \in Code("A")..Code("Z")} |->
        CodeUnits[Code(c) + (Code("a") - Code("A"))]]

Lower(c) == IF c \in DOMAIN LowerOf THEN LowerOf[c] ELSE c

LowerStr(s) == [k \in DOMAIN s |-> Lower(s[k])]

\* The length of the match of /\.(jpe?g|png)$/i in src, or 0.
ExtMatch(src) ==
    IF \/ EndsWith(LowerStr(src), <<".", "j", "p", "g">>)
       \/ EndsWith(LowerStr(src), <<".", "p", "n", "g">>) THEN Len(<<".", "j", "p", "g">>)
    ELSE IF EndsWith(LowerStr(src), <<".", "j", "p", "e", "g">>) THEN Len(<<".", "j", "p", "e", "g">>)
    ELSE 0

\* A variant of getOptimizedSrc whose pattern lacks the i flag.
getOptimizedSrcCaseSensitive(w, src) ==
    IF w = "true" /\ ~EndsWith(src, <<".", "w", "e", "b", "p">>) /\ ~Includes(src, <<"d", "a", "t", "a", ":">>)
    THEN IF EndsWith(src, <<".", "j", "p", "g">>) \/ EndsWith(src, <<".", "p", "n", "g">>)
         THEN SubSeq(src, 1, Len(src) - Len(<<".", "j", "p", "g">>)) \o <<".", "w", "e", "b", "p">>
         ELSE IF EndsWith(src, <<".", "j", "p", "e", "g">>)
         THEN SubSeq(src, 1, Len(src) - Len(<<".", "j", "p", "e", "g">>)) \o <<".", "w", "e", "b", "p">>
         ELSE src
    ELSE src

\* getOptimizedSrc(src), with this.webpSupported as w
getOptimizedSrc(w, src) ==
    IF w = "true" /\ ~EndsWith(src, <<".", "w", "e", "b", "p">>) /\ ~Includes(src, <<"d", "a", "t", "a", ":">>)
    THEN SubSeq(src, 1, Len(src) - ExtMatch(src))
            \o (IF ExtMatch(src) > 0 THEN <<".", "w", "e", "b", "p">> ELSE <<>>)
    ELSE src

\* const src = img.dataset.src || img.src
SrcOf(i) == IF imgs[i].dataSrc # NoAttr THEN imgs[i].dataSrc ELSE ImgSrc(i)

\* if (src && src !== img.src)
StartsLoad(i) == SrcOf(i) # NoAttr /\ SrcOf(i) # ImgSrc(i)

\* img[data-src], img[loading="lazy"]
Matches(i) == imgs[i].dataSrc # NoAttr \/ imgs[i].lazy

\* loadImage(img) for every img of T, with this.webpSupported as w:
\* a temporary Image is created and its src assigned.
loadImage(T, w) ==
    /\ \A i \in T : StartsLoad(i) => loads[i] < MaxLoads
    /\ tempImgs' = [i \in Imgs |->
            IF i \in T /\ StartsLoad(i)
            THEN Append(tempImgs[i],
                        [src |-> SrcOf(i), optimizedSrc |-> getOptimizedSrc(w, SrcOf(i)),
                         webp |-> w])
            ELSE tempImgs[i]]
    /\ loads' = [i \in Imgs |->
            IF i \in T /\ StartsLoad(i) THEN loads[i] + 1 ELSE loads[i]]

InDoc == {i \in Imgs : imgs[i].inDoc}

\* The rest of init() once checkWebPSupport() has resolved with w:
\* setupLazyLoading() and observeNewImages().
InitResolved(w) ==
    /\ ipc = "constructed"
    /\ ipc' = "ready"
    /\ webpSupported' = w
    /\ IF hasIO
       THEN /\ imageObserver' = TRUE
            /\ observed' = {i \in InDoc : Matches(i) /\ ~imgs[i].loaded}
            /\ UNCHANGED <<tempImgs, loads>>
       ELSE /\ loadImage({i \in InDoc : imgs[i].dataSrc # NoAttr}, w)
            /\ UNCHANGED <<imageObserver, observed>>
    /\ moActive' = hasMO
    /\ UNCHANGED <<hasIO, hasMO, imgs, failed, lateInsert, varsS, varsN>>

\* The mutation callback's test on an added image.
Reobserves(i) == ~imgs[i].loaded /\ imageObserver

\* The page inserts the element (itself or inside an added subtree); the
\* mutation callback of observeNewImages runs when the observer is active.
InsertNode(i) ==
    /\ ipc \in {"constructed", "ready"} /\ ~imgs[i].inDoc
    /\ imgs' = [imgs EXCEPT ![i].inDoc = TRUE]
    /\ lateInsert' = [lateInsert EXCEPT ![i] = @ \/ ipc = "ready"]
    /\ observed' = IF moActive /\ Matches(i) /\ Reobserves(i)
                    THEN observed \cup {i} ELSE observed
    /\ UNCHANGED <<ipc, hasIO, hasMO, webpSupported, imageObserver, moActive,
                   tempImgs, loads, failed, varsS, varsN>>

\* The page removes the element; it stays a target of the observer.
RemoveNode(i) ==
    /\ ipc \in {"constructed", "ready"} /\ imgs[i].inDoc
    /\ imgs' = [imgs EXCEPT ![i].inDoc = FALSE]
    /\ UNCHANGED <<ipc, hasIO, hasMO, webpSupported, imageObserver, moActive,
                   observed, tempImgs, loads, failed, lateInsert, varsS, varsN>>

\* The intersection callback with an entry that isIntersecting.
Intersect(i) ==
    /\ ipc = "ready" /\ i \in observed /\ imgs[i].inDoc
    /\ loadImage({i}, webpSupported)
    /\ observed' = observed \ {i}
    /\ UNCHANGED <<ipc, hasIO, hasMO, webpSupported, imageObserver, moActive,
                   imgs, failed, lateInsert, varsS, varsN>>

\* tempImg.onload (the srcset of the element is left out of the state)
OnLoad(i) ==
    /\ tempImgs[i] # <<>>
    /\ imgs' = [imgs EXCEPT ![i].srcAttr = Head(tempImgs[i]).optimizedSrc,
                             ![i].loaded = TRUE,
                             ![i].fadeIn = TRUE]
    /\ tempImgs' = [tempImgs EXCEPT ![i] = Tail(@)]
    /\ UNCHANGED <<ipc, hasIO, hasMO, webpSupported, imageObserver, moActive,
                   observed, loads, failed, lateInsert, varsS, varsN>>

\* The src the onerror handler assigns, for a temporary Image t.
FallbackSrc(t) == t.src

\* tempImg.onerror
OnError(i) ==
    /\ tempImgs[i] # <<>>
    /\ imgs' = [imgs EXCEPT ![i].srcAttr = FallbackSrc(Head(tempImgs[i])),
                             ![i].loaded = TRUE]
    /\ tempImgs' = [tempImgs EXCEPT ![i] = Tail(@)]
    /\ failed' = [failed EXCEPT ![i] = TRUE]
    /\ UNCHANGED <<ipc, hasIO, hasMO, webpSupported, imageObserver, moActive,
                   observed, loads, lateInsert, varsS, varsN>>

\* setTimeout(() => img.classList.remove('fade-in'), this.fadeInDuration)
FadeOut(i) ==
    /\ imgs[i].fadeIn
    /\ imgs' = [imgs EXCEPT ![i].fadeIn = FALSE]
    /\ UNCHANGED <<ipc, hasIO, hasMO, webpSupported, imageObserver, moActive,
                   observed, tempImgs, loads, failed, lateInsert, varsS, varsN>>

Element(m, d) ==
    [dataSrc |-> m.dataSrc, srcAttr |-> m.srcAttr, lazy |-> m.lazy,
     loaded |-> FALSE, fadeIn |-> FALSE, inDoc |-> d]

\* new ImageOptimizer(): webpSupported is null and init() awaits the probe.
InitImage ==
    /\ ipc = "constructed"
    /\ hasIO \in BOOLEAN
    /\ hasMO \in BOOLEAN
    /\ webpSupported = "null"
    /\ imageObserver = FALSE
    /\ moActive = FALSE
    /\ imgs \in [Imgs -> {Element(m, d) : m \in Markups, d \in BOOLEAN}]
    /\ observed = {}
    /\ tempImgs = [i \in Imgs |-> <<>>]
    /\ loads = [i \in Imgs |-> 0]
    /\ failed = [i \in Imgs |-> FALSE]
    /\ lateInsert = [i \in Imgs |-> FALSE]

IdleImage ==
    /\ ipc = "idle" /\ hasIO = FALSE /\ hasMO = FALSE /\ webpSupported = "null"
    /\ imageObserver = FALSE /\ moActive = FALSE
    /\ imgs = [i \in Imgs |-> Element(Markup(NoAttr, NoAttr, FALSE), FALSE)]
    /\ observed = {}
    /\ tempImgs = [i \in Imgs |-> <<>>]
    /\ loads = [i \in Imgs |-> 0]
    /\ failed = [i \in Imgs |-> FALSE]
    /\ lateInsert = [i \in Imgs |-> FALSE]

NextImage ==
    \/ \E w \in {"true", "false"} : InitResolved(w)
    \/ \E i \in Imgs : InsertNode(i)
    \/ \E i \in Imgs : RemoveNode(i)
    \/ \E i \in Imgs : Intersect(i)
    \/ \E i \in Imgs : OnLoad(i)
    \/ \E i \in Imgs : OnError(i)
    \/ \E i \in Imgs : FadeOut(i)

----------------------------------------------------------------------------
(* The programs run separately: the generator at build time, the two       *)
(* client scripts each over its own state in the page.  A specification    *)
(* runs one program and leaves the state of the others idle.               *)

InitS == InitSitemap /\ IdleNav /\ IdleImage

SpecSitemap == InitS /\ [][NextSitemap]_vars

InitN == IdleSitemap /\ InitNav /\ IdleImage

\* A requested frame callback is run, and a pending scroll event dispatched,
\* at the next rendering update of the page.
FairNav == WF_vars(ScrollEvent) /\ SF_vars(Frame)

SpecNav == InitN /\ [][NextNav]_vars /\ FairNav

InitI == IdleSitemap /\ IdleNav /\ InitImage

SpecImage == InitI /\ [][NextImage]_vars

Init == InitS \/ InitN \/ InitI

Next == NextSitemap \/ NextNav \/ NextImage

Spec == Init /\ [][Next]_vars

----------------------------------------------------------------------------
(* Properties of the sitemap generator *)

\* The URL path of a sitemap entry: its <loc> without BASE_URL.
PathOf(u) == SubSeq(u.loc, Len(BASE_URL) + 1, Len(u.loc))

UrlPaths == {PathOf(urls[k]) : k \in DOMAIN urls}

\* The files of the tree that the skip-lists do not exclude.
Eligible ==
    {e \in tree :
        /\ e.kind = "file"
        /\ EndsWith(Last(e.path), <<".", "h", "t", "m", "l">>)
        /\ Last(e.path) \notin SKIP_FILES
        /\ \A k \in 1..(Len(e.path) - 1) : e.path[k] \notin SKIP_DIRS}

\* C1: generate() produces exactly one sitemap entry for each HTML file that
\* the skip-lists do not exclude and no entry for anything else: no file is
\* dropped and no URL appears twice.
C1_OneEntryPerHtmlFile ==
    spc = "done" =>
        /\ Range(htmlFiles) = {e.path : e \in Eligible}
        /\ Len(urls) = Cardinality(Eligible)
        /\ \A e \in Eligible :
              Cardinality({k \in DOMAIN urls : PathOf(urls[k]) = toUrlPath(e.path)}) = 1
        /\ \A k \in DOMAIN urls : \E e \in Eligible : PathOf(urls[k]) = toUrlPath(e.path)

\* A finished run over a tree in which the skip-lists exclude something.
C1_Witness ==
    /\ spc = "done" /\ Len(urls) = 2 /\ Cardinality(tree) = 3
    /\ \E e \in tree : e.kind = "file" /\ Len(e.path) = 3 /\ e.path[2] = <<"i", "m", "a", "g", "e", "s">>

\* The URL path of a file as the code maps it, from the names of its path:
\* a nested index.html maps to its directory with the trailing slash kept.
ExpectedUrlPath(f) ==
    IF f = <<<<"i", "n", "d", "e", "x", ".", "h", "t", "m", "l">>>> THEN <<"/">>
    ELSE IF Last(f) = <<"i", "n", "d", "e", "x", ".", "h", "t", "m", "l">> THEN <<"/">> \o Join(Front(f), <<"/">>) \o <<"/">>
    ELSE <<"/">> \o Join(f, <<"/">>)

\* The URL path of a file as claimed: a nested index.html maps to its
\* directory with the trailing slash removed.
ClaimedUrlPath(f) ==
    IF f = <<<<"i", "n", "d", "e", "x", ".", "h", "t", "m", "l">>>> THEN <<"/">>
    ELSE IF Last(f) = <<"i", "n", "d", "e", "x", ".", "h", "t", "m", "l">> THEN <<"/">> \o Join(Front(f), <<"/">>)
    ELSE <<"/">> \o Join(f, <<"/">>)

\* C6 as claimed: the root index.html maps to '/', a nested <dir>/index.html
\* to '/<dir>' without a trailing slash, every other file to '/' and its
\* root-relative path.
C6_TrailingSlashRemoved ==
    spc = "done" => UrlPaths = {ClaimedUrlPath(f) : f \in Range(htmlFiles)}

\* C6 as amended: the root index.html maps to '/', a nested <dir>/index.html
\* to '/<dir>/' with the trailing slash kept, every other file to '/' and its
\* root-relative path.
C6_TrailingSlashKept ==
    spc = "done" => UrlPaths = {ExpectedUrlPath(f) : f \in Range(htmlFiles)}

\* A finished run with the root index and a nested index in the sitemap.
C6_Witness ==
    /\ spc = "done"
    /\ <<<<"s", "e", "r", "v", "i", "c", "e", "s">>, <<"i", "n", "d", "e", "x", ".", "h", "t", "m", "l">>>> \in Range(htmlFiles)
    /\ <<<<"i", "n", "d", "e", "x", ".", "h", "t", "m", "l">>>> \in Range(htmlFiles)
    /\ <<"/", "s", "e", "r", "v", "i", "c", "e", "s", "/">> \in UrlPaths

\* The directories a file lies in, and the names its URL path is made of.
DirsOf(f) == Range(Front(f))
UrlNames(f) == IF Last(f) = <<"i", "n", "d", "e", "x", ".", "h", "t", "m", "l">> THEN Range(Front(f)) ELSE Range(f)

\* The changefreq/priority pair by the section names found anywhere among
\* the directories of the file.
MetaBySection(f) ==
    IF f = <<<<"i", "n", "d", "e", "x", ".", "h", "t", "m", "l">>>> THEN Meta("weekly", "1.0")
    ELSE IF DirsOf(f) \cap {<<"s", "e", "r", "v", "i", "c", "e", "s">>, <<"p", "e", "r", "s", "o", "n", "a", "l">>, <<"l", "e", "g", "a", "l">>} # {}
        THEN Meta("weekly", "0.9")
    ELSE IF <<"l", "o", "c", "a", "t", "i", "o", "n", "s">> \in DirsOf(f) THEN Meta("monthly", "0.8")
    ELSE IF DirsOf(f) \cap {<<"i", "n", "d", "u", "s", "t", "r", "i", "e", "s">>, <<"r", "e", "s", "o", "u", "r", "c", "e", "s">>} # {} THEN Meta("monthly", "0.7")
    ELSE IF \E n \in UrlNames(f) : Includes(n, <<"p", "r", "i", "v", "a", "c", "y">>) \/ Includes(n, <<"t", "e", "r", "m", "s">>)
        THEN Meta("yearly", "0.3")
    ELSE Meta("monthly", "0.6")

\* The changefreq/priority pair by the section the URL path starts with.
MetaByFirstDir(f) ==
    IF f = <<<<"i", "n", "d", "e", "x", ".", "h", "t", "m", "l">>>> THEN Meta("weekly", "1.0")
    ELSE IF Len(f) > 1 /\ f[1] \in {<<"s", "e", "r", "v", "i", "c", "e", "s">>, <<"p", "e", "r", "s", "o", "n", "a", "l">>, <<"l", "e", "g", "a", "l">>}
        THEN Meta("weekly", "0.9")
    ELSE IF Len(f) > 1 /\ f[1] = <<"l", "o", "c", "a", "t", "i", "o", "n", "s">> THEN Meta("monthly", "0.8")
    ELSE IF Len(f) > 1 /\ f[1] \in {<<"i", "n", "d", "u", "s", "t", "r", "i", "e", "s">>, <<"r", "e", "s", "o", "u", "r", "c", "e", "s">>} THEN Meta("monthly", "0.7")
    ELSE IF \E n \in UrlNames(f) : Includes(n, <<"p", "r", "i", "v", "a", "c", "y">>) \/ Includes(n, <<"t", "e", "r", "m", "s">>)
        THEN Meta("yearly", "0.3")
    ELSE Meta("monthly", "0.6")

EntriesOf(f) == {k \in DOMAIN urls : PathOf(urls[k]) = ExpectedUrlPath(f)}

MetaOf(u) == Meta(u.changefreq, u.priority)

\* C7 as claimed: the pair of an entry is decided by the section its URL path
\* starts with; a section name in a later segment leaves the default pair.
C7_MetaByPrefix ==
    spc = "done" =>
        \A f \in Range(htmlFiles) :
            EntriesOf(f) # {} /\ \A k \in EntriesOf(f) : MetaOf(urls[k]) = MetaByFirstDir(f)

\* C7 as amended: the pair of an entry is decided by the first test its URL
\* path passes, in the order '/' (weekly/1.0), contains '/services/',
\* '/personal/' or '/legal/' (weekly/0.9), contains '/locations/'
\* (monthly/0.8), contains '/industries/' or '/resources/' (monthly/0.7),
\* contains 'privacy' or 'terms' (yearly/0.3), otherwise monthly/0.6; the
\* section tests are met by a directory of that name at any depth.
C7_MetaBySection ==
    spc = "done" =>
        \A f \in Range(htmlFiles) :
            EntriesOf(f) # {} /\ \A k \in EntriesOf(f) : MetaOf(urls[k]) = MetaBySection(f)

\* A finished run with a page under a nested services directory, which gets
\* the pair of the services section.
C7_Witness ==
    /\ spc = "done"
    /\ \E k \in DOMAIN urls :
          /\ PathOf(urls[k]) = <<"/", "b", "l", "o", "g", "/", "s", "e", "r", "v", "i", "c", "e", "s", "/", "a", ".", "h", "t", "m", "l">>
          /\ MetaOf(urls[k]) = Meta("weekly", "0.9")
    /\ \E k \in DOMAIN urls : MetaOf(urls[k]) = Meta("yearly", "0.3")

\* C9: the entries of the sitemap are in ascending order of URL path, by
\* UTF-16 code units, whatever the order the directories were listed in.
C9_SortedByUrlPath ==
    spc = "done" =>
        \A k \in 1..(Len(urls) - 1) : StrLeq(PathOf(urls[k]), PathOf(urls[k + 1]))

\* A finished run whose files were discovered out of URL order.
C9_Witness ==
    /\ spc = "done" /\ Len(urls) = 3
    /\ \E k \in 1..(Len(htmlFiles) - 1) :
          StrLess(toUrlPath(htmlFiles[k + 1]), toUrlPath(htmlFiles[k]))

----------------------------------------------------------------------------
(* Properties of the navigation scroll handler *)

\* C4: once the script has run, with a header element present, the header
\* has class 'scrolled' exactly when the offset read by the last updateHeader
\* is greater than 50.
C4_ScrolledIffAbove50 ==
    (npc = "running" /\ header) => (scrolled <=> lastRead > 50)

\* updateHeader has read an offset of exactly 50 and left the class absent.
C4_Witness ==
    /\ npc = "running" /\ header
    /\ lastRead = 50 /\ ~scrolled /\ lastEventOffset = 50 /\ ~ticking

\* C10: with a header element present, at most one updateHeader callback is
\* pending, ticking is true exactly while one is pending, whenever none is
\* pending the class agrees with the offset of the most recent scroll event,
\* and a pending callback is eventually run.
C10_ThrottledAndCurrent ==
    /\ []((npc = "running" /\ header) =>
            /\ rafPending <= 1
            /\ ticking <=> rafPending = 1
            /\ rafPending = 0 => (scrolled <=> lastEventOffset > 50))
    /\ ((header /\ rafPending > 0) ~> (rafPending = 0))

\* A callback is pending while the class still shows an earlier offset.
C10_Witness ==
    /\ npc = "running" /\ header /\ ticking /\ rafPending = 1
    /\ ~scrollEventPending /\ lastEventOffset = 0 /\ lastRead = 120 /\ scrolled

----------------------------------------------------------------------------
(* Properties of the ImageOptimizer *)

Temps(i) == Range(tempImgs[i])

\* C2: the optimizer creates at most one temporary Image for an element.
C2_AtMostOneLoad == \A i \in Imgs : loads[i] <= 1

\* C3: when a load fails the element's src becomes the original source, the
\* element gets class 'loaded', and no load is started for it from then on.
C3_FallbackWithoutRetry ==
    [][\A i \in Imgs :
          /\ (failed'[i] /\ ~failed[i]) =>
                (imgs'[i].srcAttr = imgs[i].dataSrc /\ imgs'[i].loaded)
          /\ failed[i] => loads'[i] = loads[i]]_vars

\* C5: an image with data-src that differs from its src, inserted after
\* init and not yet marked loaded, is a target of the observer or has had a
\* load started, where MutationObserver exists.
C5_LateImageRegistered ==
    \A i \in Imgs :
        (/\ ipc = "ready" /\ hasMO /\ lateInsert[i] /\ imgs[i].inDoc
         /\ imgs[i].dataSrc # NoAttr /\ StartsLoad(i) /\ ~imgs[i].loaded)
        => (i \in observed \/ loads[i] > 0)

\* src ends in .jpg, .jpeg or .png in any letter case.
RasterExt(src) ==
    \E e \in {<<".", "j", "p", "g">>, <<".", "j", "p", "e", "g">>, <<".", "p", "n", "g">>} : EndsWith(LowerStr(src), e)

\* src with everything from its last '.' on replaced by '.webp'.
WebpName(src) ==
    LET dot == CHOOSE k \in DOMAIN src :
                  src[k] = "." /\ \A m \in (k + 1)..Len(src) : src[m] # "."
    IN SubSeq(src, 1, dot - 1) \o <<".", "w", "e", "b", "p">>

\* C8 as claimed: with WebP support every data-src ending in .jpg, .jpeg or
\* .png resolves to the same path with the extension .webp; without it every
\* data-src resolves to itself; no source is resolved while the flag is null.
C8_EveryRasterToWebp ==
    \A i \in Imgs : \A t \in Temps(i) :
        /\ t.webp # "null"
        /\ t.src = imgs[i].dataSrc
        /\ (t.webp = "true" /\ RasterExt(t.src)) => t.optimizedSrc = WebpName(t.src)
        /\ t.webp = "false" => t.optimizedSrc = t.src

\* C8 as amended: with WebP support every data-src that ends in .jpg, .jpeg
\* or .png and does not contain 'data:' resolves to the same path with the
\* extension .webp, and one that contains 'data:' resolves to itself; without
\* support every data-src resolves to itself; no source is resolved while
\* the flag is null.
C8_RasterToWebpUnlessData ==
    \A i \in Imgs : \A t \in Temps(i) :
        /\ t.webp # "null"
        /\ t.src = imgs[i].dataSrc
        /\ (t.webp = "true" /\ RasterExt(t.src) /\ ~Includes(t.src, <<"d", "a", "t", "a", ":">>))
              => t.optimizedSrc = WebpName(t.src)
        /\ (t.webp = "true" /\ Includes(t.src, <<"d", "a", "t", "a", ":">>)) => t.optimizedSrc = t.src
        /\ t.webp = "false" => t.optimizedSrc = t.src

\* With WebP support, a.PNG is loading as a.webp and a data: source as itself.
C8_Witness ==
    /\ webpSupported = "true"
    /\ \E i \in Imgs : \E t \in Temps(i) : t.src = <<"a", ".", "P", "N", "G">> /\ t.optimizedSrc = <<"a", ".", "w", "e", "b", "p">>
    /\ \E i \in Imgs : \E t \in Temps(i) : t.src = <<"d", "a", "t", "a", ":", "x", ".", "p", "n", "g">> /\ t.optimizedSrc = t.src
====
